---- MODULE Spec2Model ----
(***************************************************************************)
(* Marketing-campaign dashboard (src/app.py).                              *)
(*                                                                         *)
(* Two parts of the program are modelled:                                  *)
(*   - load_and_clean_data, the pandas cleaning pipeline (lines 41-95),    *)
(*     as operators over tables (sequences of rows);                       *)
(*   - the Streamlit script (lines 97-235): one top-to-bottom run per      *)
(*     interaction, the st.cache_data memoization of the pipeline, the     *)
(*     sidebar filters and the 'Age Group' binning.                        *)
(*                                                                         *)
(* SpecClean runs the pipeline on every table of a bounded input set.      *)
(* Spec runs the script repeatedly while the file on disk changes, the     *)
(* user changes the sidebar selection and the process restarts.            *)
(***************************************************************************)
EXTENDS Integers, Sequences, FiniteSets, TLC

VARIABLES
    file,         \* the CSV on disk: [kind, table]
    cache,        \* st.cache_data's entry for the one path the script uses
    computed,     \* results the pipeline body produced since the process started
    df,           \* the script's df after the latest run
    df_filtered,  \* the script's df_filtered after the latest run
    rendered,     \* kinds of elements the latest run put on the page
    lastRun,      \* what the latest run saw: file kind, cache hit, selection
    pc            \* "start" | "done" | "halted"

vars == <<file, cache, computed, df, df_filtered, rendered, lastRun, pc>>

----------------------------------------------------------------------------
(* Bounds of the model *)

\* longest input table of SpecClean
MaxRows == 2

\* longest input table of Spec
MaxAppRows == 2

----------------------------------------------------------------------------
(* Values *)

\* a missing float cell (NaN) and a present one
NaN == [isnull |-> TRUE, v |-> 0]

Num(x) == [isnull |-> FALSE, v |-> x]

\* a missing datetime cell (NaT) and a present one
NaT == [nat |-> TRUE, y |-> 0, m |-> 0, d |-> 0]

Date(y, m, d) == [nat |-> FALSE, y |-> y, m |-> m, d |-> d]

\* a table: its column names and its rows in order
Table(cols, rows) == [columns |-> cols, rows |-> rows]

\* the value of a call: None, or a table
None == [none |-> TRUE, columns |-> {}, rows |-> <<>>]

Some(t) == [none |-> FALSE, columns |-> t.columns, rows |-> t.rows]

\* df[c] = vals: adds or overwrites column c, one value per row
SetColumn(t, c, vals) ==
    Table(t.columns \cup {c},
          [i \in DOMAIN t.rows |->
              [k \in DOMAIN t.rows[i] \cup {c} |->
                  IF k = c THEN vals[i] ELSE t.rows[i][k]]])

RECURSIVE Pick(_, _)
Pick(rows, mask) ==
    IF rows = <<>> THEN <<>>
    ELSE (IF Head(mask) THEN <<Head(rows)>> ELSE <<>>)
         \o Pick(Tail(rows), Tail(mask))

\* df[mask]: boolean indexing keeps the columns and the rows whose mask is True
BoolIndex(t, mask) == Table(t.columns, Pick(t.rows, mask))

\* df[c].isin(sel)
IsIn(t, c, sel) == [i \in DOMAIN t.rows |-> t.rows[i][c] \in sel]

----------------------------------------------------------------------------
(* Dates: strings are sequences of characters *)

Digits == {"0", "1", "2", "3", "4", "5", "6", "7", "8", "9"}

DigitVal(c) ==
    CASE c = "0" -> 0 [] c = "1" -> 1 [] c = "2" -> 2 [] c = "3" -> 3
      [] c = "4" -> 4 [] c = "5" -> 5 [] c = "6" -> 6 [] c = "7" -> 7
      [] c = "8" -> 8 [] c = "9" -> 9

AllDigits(s) == \A i \in DOMAIN s : s[i] \in Digits

RECURSIVE ToInt(_)
ToInt(s) ==
    IF s = <<>> THEN 0
    ELSE 10 * ToInt(SubSeq(s, 1, Len(s) - 1)) + DigitVal(s[Len(s)])

IsLeap(y) == (y % 4 = 0 /\ y % 100 # 0) \/ y % 400 = 0

DaysInMonth(y, m) ==
    IF m = 2 THEN (IF IsLeap(y) THEN 29 ELSE 28)
    ELSE IF m \in {4, 6, 9, 11} THEN 30 ELSE 31

\* days from 1970-01-01 to y-m-d in the proleptic Gregorian calendar
DaysFromCivil(y, m, d) ==
    LET yy  == IF m <= 2 THEN y - 1 ELSE y
        era == yy \div 400
        yoe == yy - era * 400
        mp  == IF m > 2 THEN m - 3 ELSE m + 9
        doy == (153 * mp + 2) \div 5 + d - 1
        doe == yoe * 365 + yoe \div 4 - yoe \div 100 + doy
    IN  era * 146097 + doe - 719468

\* a calendar date a nanosecond Timestamp can hold (1677-09-22 .. 2262-04-11)
ValidDate(y, m, d) ==
    /\ m \in 1..12
    /\ d \in 1..DaysInMonth(y, m)
    /\ DaysFromCivil(y, m, d) >= DaysFromCivil(1677, 9, 22)
    /\ DaysFromCivil(y, m, d) <= DaysFromCivil(2262, 4, 11)

MakeDate(y, m, d) == IF ValidDate(y, m, d) THEN Date(y, m, d) ELSE NaT

\* pd.to_datetime(s, format='%Y-%m-%d', errors='coerce') of one zero-padded
\* string: YYYY-MM-DD or NaT
StrictParse(s) ==
    IF /\ Len(s) = 10
       /\ s[5] = "-" /\ s[8] = "-"
       /\ AllDigits(SubSeq(s, 1, 4))
       /\ AllDigits(SubSeq(s, 6, 7))
       /\ AllDigits(SubSeq(s, 9, 10))
    THEN MakeDate(ToInt(SubSeq(s, 1, 4)), ToInt(SubSeq(s, 6, 7)),
                  ToInt(SubSeq(s, 9, 10)))
    ELSE NaT

\* pd.to_datetime(v, dayfirst=True, errors='coerce') of one cell that already
\* holds a datetime: a datetime64 value (NaT included) converts to itself
ToDatetimeDayFirst(v) == IF v.nat THEN NaT ELSE Date(v.y, v.m, v.d)

----------------------------------------------------------------------------
(* load_and_clean_data: the cleaning pipeline *)

current_year == 2014

products ==
    <<"MntWines", "MntFruits", "MntMeatProducts", "MntFishProducts",
      "MntSweetProducts", "MntGoldProds">>

campaigns ==
    <<"AcceptedCmp1", "AcceptedCmp2", "AcceptedCmp3", "AcceptedCmp4",
      "AcceptedCmp5", "Response">>

\* df[cols].sum(axis=1) of one row
RECURSIVE SumCols(_, _)
SumCols(r, cols) ==
    IF cols = <<>> THEN 0 ELSE r[Head(cols)] + SumCols(r, Tail(cols))

\* df.dropna(subset=['Income']): the rows it keeps
IncomePresent(r) == ~r.Income.isnull

DropNaIncome(t) ==
    BoolIndex(t, [i \in DOMAIN t.rows |-> IncomePresent(t.rows[i])])

AgeOf(r) == current_year - r.Year_Birth

AddAge(t) ==
    SetColumn(t, "Age", [i \in DOMAIN t.rows |-> AgeOf(t.rows[i])])

\* variant: the last product column is left out of the sum
TotalSpendOfFive(r) == SumCols(r, SubSeq(products, 1, 5))

TotalSpendOf(r) == SumCols(r, products)

AddTotalSpend(t) ==
    SetColumn(t, "Total_Spend",
              [i \in DOMAIN t.rows |-> TotalSpendOf(t.rows[i])])

TotalAcceptedOf(r) == SumCols(r, campaigns)

AddTotalAccepted(t) ==
    SetColumn(t, "Total_Accepted_Campaigns",
              [i \in DOMAIN t.rows |-> TotalAcceptedOf(t.rows[i])])

StrictParseOf(r) == StrictParse(r.Dt_Customer)

\* the retry reads df['Dt_Customer'], which the strict parse has overwritten
DayFirstRetryOf(r) == ToDatetimeDayFirst(r.Dt_Customer)

AllNull(t, c) == \A i \in DOMAIN t.rows : t.rows[i][c].nat

ParseDates(t) ==
    LET strict == SetColumn(t, "Dt_Customer",
                            [i \in DOMAIN t.rows |-> StrictParseOf(t.rows[i])])
    IN  IF AllNull(strict, "Dt_Customer")
        THEN SetColumn(strict, "Dt_Customer",
                       [i \in DOMAIN strict.rows |->
                           DayFirstRetryOf(strict.rows[i])])
        ELSE strict

\* (pd.to_datetime(f"{current_year}-12-31") - df['Dt_Customer']).dt.days
TenureOf(r) ==
    IF r.Dt_Customer.nat THEN NaN
    ELSE Num(DaysFromCivil(current_year, 12, 31)
             - DaysFromCivil(r.Dt_Customer.y, r.Dt_Customer.m, r.Dt_Customer.d))

\* variant: rows without a parsed date are dropped before the subtraction
AddTenureDropNaT(t) ==
    LET kept == BoolIndex(t, [i \in DOMAIN t.rows |-> ~t.rows[i].Dt_Customer.nat])
    IN  SetColumn(kept, "Tenure_Days",
                  [i \in DOMAIN kept.rows |-> TenureOf(kept.rows[i])])

AddTenure(t) ==
    SetColumn(t, "Tenure_Days", [i \in DOMAIN t.rows |-> TenureOf(t.rows[i])])

\* variant: 'Alone' is filed under Other with the noise values
MaritalOfAloneOther(v) ==
    CASE v \in {"Married", "Together"} -> "Partner"
      [] v \in {"Single", "Divorced", "Widow"} -> "Single"
      [] v \in {"Absurd", "YOLO", "Alone"} -> "Other"
      [] OTHER -> v

\* Series.replace(dict): a value that is a key becomes its entry, any other stays
MaritalOf(v) ==
    CASE v \in {"Married", "Together"} -> "Partner"
      [] v \in {"Single", "Divorced", "Widow", "Alone"} -> "Single"
      [] v \in {"Absurd", "YOLO"} -> "Other"
      [] OTHER -> v

ReplaceMaritalOf(r) == MaritalOf(r.Marital_Status)

ReplaceMarital(t) ==
    SetColumn(t, "Marital_Status",
              [i \in DOMAIN t.rows |-> ReplaceMaritalOf(t.rows[i])])

EducationOf(v) ==
    CASE v = "Basic" -> "Undergraduate"
      [] v = "2n Cycle" -> "Master"
      [] v = "Graduation" -> "Graduate"
      [] v = "Master" -> "Master"
      [] v = "PhD" -> "PhD"
      [] OTHER -> v

ReplaceEducationOf(r) == EducationOf(r.Education)

ReplaceEducation(t) ==
    SetColumn(t, "Education",
              [i \in DOMAIN t.rows |-> ReplaceEducationOf(t.rows[i])])

AgeKept(r) == r.Age < 100

\* variant: the Income bound is inclusive
IncomeKeptInclusive(r) == ~r.Income.isnull /\ r.Income.v <= 600000

IncomeKept(r) == ~r.Income.isnull /\ r.Income.v < 600000

RemoveOutliers(t) ==
    LET byAge == BoolIndex(t, [i \in DOMAIN t.rows |-> AgeKept(t.rows[i])])
    IN  BoolIndex(byAge, [i \in DOMAIN byAge.rows |-> IncomeKept(byAge.rows[i])])

\* the body of load_and_clean_data after the file has been read
Clean(t) ==
    RemoveOutliers(
      ReplaceEducation(
        ReplaceMarital(
          AddTenure(
            ParseDates(
              AddTotalAccepted(
                AddTotalSpend(
                  AddAge(
                    DropNaIncome(t)))))))))

----------------------------------------------------------------------------
(* Input tables *)

RawColumns ==
    {"ID", "Year_Birth", "Income", "Dt_Customer", "Marital_Status", "Education",
     "MntWines", "MntFruits", "MntMeatProducts", "MntFishProducts",
     "MntSweetProducts", "MntGoldProds", "AcceptedCmp1", "AcceptedCmp2",
     "AcceptedCmp3", "AcceptedCmp4", "AcceptedCmp5", "Response", "Country"}

RawRow(yb, inc, dt, ms, ed, mnt, acc, country) ==
    [ID |-> 0, Year_Birth |-> yb, Income |-> inc, Dt_Customer |-> dt,
     Marital_Status |-> ms, Education |-> ed,
     MntWines |-> mnt[1], MntFruits |-> mnt[2], MntMeatProducts |-> mnt[3],
     MntFishProducts |-> mnt[4], MntSweetProducts |-> mnt[5],
     MntGoldProds |-> mnt[6],
     AcceptedCmp1 |-> acc[1], AcceptedCmp2 |-> acc[2], AcceptedCmp3 |-> acc[3],
     AcceptedCmp4 |-> acc[4], AcceptedCmp5 |-> acc[5], Response |-> acc[6],
     Country |-> country]

\* "2013-06-15", "2014-12-31", "2012-02-29": strict format
DtIso == <<"2", "0", "1", "3", "-", "0", "6", "-", "1", "5">>

DtRef == <<"2", "0", "1", "4", "-", "1", "2", "-", "3", "1">>

DtLeap == <<"2", "0", "1", "2", "-", "0", "2", "-", "2", "9">>

\* "15-06-2013": day first
DtDayFirst == <<"1", "5", "-", "0", "6", "-", "2", "0", "1", "3">>

\* "2013-02-30" (no such day) and "n/a": no reading at all
DtNoDay == <<"2", "0", "1", "3", "-", "0", "2", "-", "3", "0">>

DtJunk == <<"n", "/", "a">>

MntBase == <<100, 0, 0, 0, 0, 0>>

AccBase == <<0, 0, 0, 0, 0, 1>>

\* the rows SpecClean draws from: each group varies some columns of one row
DemographicRows ==
    {RawRow(yb, inc, DtIso, "Married", "Basic", MntBase, AccBase, "SP") :
        yb \in {1914, 1915, 1970, 2014, 2015},
        inc \in {NaN, Num(50000), Num(599999), Num(600000)}}

DateRows ==
    {RawRow(yb, Num(50000), dt, "Married", "Basic", MntBase, AccBase, "SP") :
        yb \in {1914, 1970},
        dt \in {DtRef, DtLeap, DtDayFirst, DtNoDay, DtJunk}}

CategoryRows ==
    {RawRow(1970, Num(50000), DtIso, ms, "Basic", MntBase, AccBase, "SP") :
        ms \in {"Together", "Single", "Divorced", "Widow", "Alone", "Absurd",
                "YOLO", "Cohabiting"}}
    \cup
    {RawRow(1970, Num(50000), DtIso, "Married", ed, MntBase, AccBase, "SP") :
        ed \in {"2n Cycle", "Graduation", "Master", "PhD", "Diploma"}}

AmountRows ==
    {RawRow(1970, Num(50000), DtIso, "Married", "Basic", mnt, acc, "SP") :
        mnt \in {<<0, 0, 0, 0, 0, 0>>, <<1, 2, 4, 8, 16, 32>>},
        acc \in {<<0, 0, 0, 0, 0, 0>>, <<1, 1, 1, 1, 1, 1>>, <<1, 0, 1, 0, 0, 0>>}}

CleanRows == DemographicRows \cup DateRows \cup CategoryRows \cup AmountRows

\* the rows in file order, each with its position as ID
Numbered(rows) == [i \in DOMAIN rows |-> [rows[i] EXCEPT !.ID = i]]

TablesOver(rowSet, maxLen) ==
    {Table(RawColumns, Numbered(rows)) :
        rows \in UNION {[1..n -> rowSet] : n \in 0..maxLen}}

CleanInputs == TablesOver(CleanRows, MaxRows)

----------------------------------------------------------------------------
(* The file, the cache and one call *)

Present(t) == [kind |-> "present", table |-> t]

Missing == [kind |-> "missing", table |-> Table({}, <<>>)]

Unreadable == [kind |-> "unreadable", table |-> Table({}, <<>>)]

EmptyCache == [stored |-> FALSE, val |-> None]

Stored(v) == [stored |-> TRUE, val |-> v]

NoRun == [fileKind |-> "none", hit |-> FALSE]

\* pd.read_csv raises anything but FileNotFoundError through the function
Raises(f) == f.kind = "unreadable"

\* load_and_clean_data's body on a file it can open or cannot find
load_and_clean_data(f) ==
    IF f.kind = "missing" THEN None ELSE Some(Clean(f.table))

----------------------------------------------------------------------------
(* The script: sidebar filters and the Age Group binning *)

\* the files Spec puts on disk: stretches of a fixed roster of customers, with
\* or without the optional Country column
AppRoster ==
    <<RawRow(2014, Num(50000), DtIso, "Married", "Basic", MntBase, AccBase, "SP"),
      RawRow(1953, Num(70000), DtIso, "Single", "PhD", MntBase, AccBase, "CA"),
      RawRow(1984, Num(600000), DtIso, "YOLO", "Graduation", MntBase, AccBase, "SP"),
      RawRow(1984, Num(30000), DtRef, "YOLO", "Graduation", MntBase, AccBase, "SP")>>

DropColumn(t, c) ==
    Table(t.columns \ {c},
          [i \in DOMAIN t.rows |->
              [k \in DOMAIN t.rows[i] \ {c} |-> t.rows[i][k]]])

AppStretches ==
    {Table(RawColumns, Numbered(SubSeq(AppRoster, w[1], w[1] + w[2] - 1))) :
        w \in {v \in (1..Len(AppRoster)) \X (0..MaxAppRows) :
                   v[1] + v[2] - 1 <= Len(AppRoster)}}

AppInputs == AppStretches \cup {DropColumn(t, "Country") : t \in AppStretches}

FileStates == {Missing, Unreadable} \cup {Present(t) : t \in AppInputs}

\* variant: the cache never answers, every call runs the body
CacheNeverHits(c) == FALSE

\* st.cache_data: a stored entry for the path answers the call
CacheHit(c) == c.stored

\* variant: the dashboard branch is taken whatever the call returned
ProceedsAlways(result) == TRUE

\* if df is not None
Proceeds(result) == ~result.none

\* df[col].unique(): the options (and the default) of one multiselect
Unique(t, c) == {t.rows[i][c] : i \in DOMAIN t.rows}

\* pd.cut(x, bins=[0, 30, 45, 60, 100], labels=[...]): intervals closed on the
\* right and open on the left; a value in no interval has no label
AgeBins == <<0, 30, 45, 60, 100>>

AgeLabels == <<"<30", "30-45", "46-60", "60+">>

NoLabel == "NaN"

Cut(x) ==
    IF \E b \in 1..Len(AgeLabels) : AgeBins[b] < x /\ x <= AgeBins[b + 1]
    THEN AgeLabels[CHOOSE b \in 1..Len(AgeLabels) :
                       AgeBins[b] < x /\ x <= AgeBins[b + 1]]
    ELSE NoLabel

AgeGroupOf(r) == Cut(r.Age)

\* variant: indexing hands back the frame it was applied to
IndexInPlace(src, fresh) == src

\* the frame a boolean-indexing expression evaluates to: a new one
IndexResult(src, fresh) == fresh

\* lines 107-120 and 201 on the frames the script's names are bound to.
\* frames maps a frame to its table; the result gives the frames after line
\* 201 and the frame df_filtered names.
ScriptFrames(d, selC, selE, selM) ==
    LET h0 == [o \in {"df"} |-> d]
        rC == IF "Country" \in d.columns THEN IndexResult("df", "byCountry")
              ELSE "df"
        hC == IF "Country" \in d.columns
              THEN [o \in DOMAIN h0 \cup {rC} |->
                       IF o = rC THEN BoolIndex(h0["df"], IsIn(h0["df"], "Country", selC)) ELSE h0[o]]
              ELSE h0
        rE == IndexResult(rC, "byEducation")
        hE == [o \in DOMAIN hC \cup {rE} |->
                  IF o = rE
                  THEN BoolIndex(hC[rC], IsIn(hC[rC], "Education", selE))
                  ELSE hC[o]]
        rM == IndexResult(rE, "byMarital")
        hM == [o \in DOMAIN hE \cup {rM} |->
                  IF o = rM
                  THEN BoolIndex(hE[rE], IsIn(hE[rE], "Marital_Status", selM))
                  ELSE hE[o]]
        hA == [hM EXCEPT ![rM] =
                  SetColumn(hM[rM], "Age Group",
                            [i \in DOMAIN hM[rM].rows |->
                                AgeGroupOf(hM[rM].rows[i])])]
    IN  [frames |-> hA, filtered |-> rM]

CountryOptions(d) == IF "Country" \in d.columns THEN Unique(d, "Country") ELSE {}

----------------------------------------------------------------------------
(* Spec: script runs, file changes and restarts *)

Init ==
    /\ file \in FileStates
    /\ cache = EmptyCache
    /\ computed = 0
    /\ df = None
    /\ df_filtered = None
    /\ rendered = {}
    /\ lastRun = NoRun
    /\ pc = "start"

\* the value line 99 binds to df, when the call returns
CallResult == IF CacheHit(cache) THEN cache.val ELSE load_and_clean_data(file)

Seen == [fileKind |-> file.kind, hit |-> CacheHit(cache)]

\* a run whose call reads the file and pd.read_csv raises: the exception
\* leaves the function and ends the run; nothing is stored
RunRaises ==
    /\ ~CacheHit(cache)
    /\ Raises(file)
    /\ df' = None
    /\ df_filtered' = None
    /\ rendered' = {"exception"}
    /\ lastRun' = Seen
    /\ pc' = "halted"
    /\ UNCHANGED <<file, cache, computed>>

Returns == CacheHit(cache) \/ ~Raises(file)

StoreResult ==
    /\ cache' = Stored(CallResult)
    /\ computed' = IF CacheHit(cache) THEN computed ELSE computed + 1
    /\ lastRun' = Seen

\* a run whose call returns None: st.error (replayed on a hit), then st.info
RunNone ==
    /\ Returns
    /\ ~Proceeds(CallResult)
    /\ StoreResult
    /\ df' = CallResult
    /\ df_filtered' = None
    /\ rendered' = {"error", "info"}
    /\ pc' = "done"
    /\ UNCHANGED file

\* a run whose call returns a table: filters, KPI cards, the three tabs. The
\* first run of a session has every option selected; later runs have whatever
\* the user left selected.
RunDashboard ==
    /\ Returns
    /\ Proceeds(CallResult)
    /\ StoreResult
    /\ \E selC \in SUBSET CountryOptions(CallResult),
          selE \in SUBSET Unique(CallResult, "Education"),
          selM \in SUBSET Unique(CallResult, "Marital_Status") :
          /\ pc = "start" =>
                 /\ selC = CountryOptions(CallResult)
                 /\ selE = Unique(CallResult, "Education")
                 /\ selM = Unique(CallResult, "Marital_Status")
          /\ LET d == Table(CallResult.columns, CallResult.rows)
                 s == ScriptFrames(d, selC, selE, selM)
             IN  /\ df' = Some(s.frames["df"])
                 /\ df_filtered' = Some(s.frames[s.filtered])
    /\ rendered' = {"sidebar", "kpi", "chart"}
    /\ pc' = "done"
    /\ UNCHANGED file

\* the file is replaced, removed or made unreadable between runs
FileChange ==
    /\ file' \in FileStates \ {file}
    /\ UNCHANGED <<cache, computed, df, df_filtered, rendered, lastRun, pc>>

\* the process restarts: the cache and the session are gone
Restart ==
    /\ pc # "start"
    /\ cache' = EmptyCache
    /\ computed' = 0
    /\ df' = None
    /\ df_filtered' = None
    /\ rendered' = {}
    /\ lastRun' = NoRun
    /\ pc' = "start"
    /\ UNCHANGED file

Next == RunRaises \/ RunNone \/ RunDashboard \/ FileChange \/ Restart

Spec == Init /\ [][Next]_vars

----------------------------------------------------------------------------
(* SpecClean: the pipeline on every input table *)

InitClean ==
    /\ file \in {Present(t) : t \in CleanInputs}
    /\ cache = EmptyCache
    /\ computed = 0
    /\ df = None
    /\ df_filtered = None
    /\ rendered = {}
    /\ lastRun = NoRun
    /\ pc = "start"

CallClean ==
    /\ pc = "start"
    /\ df' = load_and_clean_data(file)
    /\ pc' = "done"
    /\ UNCHANGED <<file, cache, computed, df_filtered, rendered, lastRun>>

NextClean == CallClean

SpecClean == InitClean /\ [][NextClean]_vars

----------------------------------------------------------------------------
(* Properties of the pipeline (checked under SpecClean) *)

\* the rows read from the file and the rows load_and_clean_data returned
In == file.table.rows

Out == df.rows

Returned == pc = "done" /\ ~df.none

InputOf(r) == In[r.ID]

\* the date a day-first reading of a raw string DD-MM-YYYY denotes (the claims'
\* "parseable day-first"); no line of the pipeline reads a raw string this way
DayFirstDate(s) ==
    IF /\ Len(s) = 10
       /\ s[3] = "-" /\ s[6] = "-"
       /\ AllDigits(SubSeq(s, 1, 2))
       /\ AllDigits(SubSeq(s, 4, 5))
       /\ AllDigits(SubSeq(s, 7, 10))
    THEN MakeDate(ToInt(SubSeq(s, 7, 10)), ToInt(SubSeq(s, 4, 5)),
                  ToInt(SubSeq(s, 1, 2)))
    ELSE NaT

\* the rows the strict parse sees: those that survive dropna
StrictAllFail ==
    \A j \in DOMAIN In :
        ~In[j].Income.isnull => StrictParse(In[j].Dt_Customer).nat

RefDay == DaysFromCivil(2014, 12, 31)

DayNumber(dt) == DaysFromCivil(dt.y, dt.m, dt.d)

\* C1: when every value of Dt_Customer fails the strict YYYY-MM-DD parse, the
\* column is parsed again day-first from the raw strings, so a row whose raw
\* date reads day-first (15-06-2013) ends with a non-null Dt_Customer and
\* Tenure_Days = the days from that date to 2014-12-31.
C1_DayFirstFallback ==
    Returned =>
        \A i \in DOMAIN Out :
            LET raw == InputOf(Out[i]).Dt_Customer
            IN  (StrictAllFail /\ ~DayFirstDate(raw).nat) =>
                    /\ ~Out[i].Dt_Customer.nat
                    /\ Out[i].Tenure_Days
                         = Num(RefDay - DayNumber(DayFirstDate(raw)))

\* C2: every returned row has Age = 2014 - Year_Birth and 0 <= Age < 100: no
\* row with Age = 100 and no row with a negative Age is present.
C2_AgeRange ==
    Returned =>
        \A i \in DOMAIN Out :
            /\ Out[i].Age = 2014 - Out[i].Year_Birth
            /\ 0 <= Out[i].Age
            /\ Out[i].Age < 100

\* an input row the two filters are meant to keep
KeepsRow(r) ==
    /\ ~r.Income.isnull
    /\ r.Income.v < 600000
    /\ 2014 - r.Year_Birth < 100

\* C3: every returned row has a non-null Income strictly below 600000 (null
\* and 600000 itself are absent), and every input row with a non-null
\* Income < 600000 and Age < 100 is returned, in file order.
C3_IncomeFilter ==
    Returned =>
        /\ \A i \in DOMAIN Out :
               ~Out[i].Income.isnull /\ Out[i].Income.v < 600000
        /\ {Out[i].ID : i \in DOMAIN Out}
             = {j \in DOMAIN In : KeepsRow(In[j])}
        /\ \A i, k \in DOMAIN Out : i < k => Out[i].ID < Out[k].ID

C3_Witness ==
    /\ Returned
    /\ \E j, k \in DOMAIN In :
           /\ In[j].Income = Num(600000)
           /\ In[k].Income = Num(599999)
           /\ In[k].Year_Birth = 1915
           /\ Len(Out) = 1
           /\ Out[1].ID = k

\* C4: for every returned row Total_Spend is exactly the sum of its six Mnt*
\* columns and Total_Accepted_Campaigns exactly the sum of its six flags; the
\* normalization and outlier steps that follow leave both as derived.
C4_ExactSums ==
    Returned =>
        \A i \in DOMAIN Out :
            /\ Out[i].Total_Spend
                 = Out[i].MntWines + Out[i].MntFruits + Out[i].MntMeatProducts
                   + Out[i].MntFishProducts + Out[i].MntSweetProducts
                   + Out[i].MntGoldProds
            /\ Out[i].Total_Accepted_Campaigns
                 = Out[i].AcceptedCmp1 + Out[i].AcceptedCmp2
                   + Out[i].AcceptedCmp3 + Out[i].AcceptedCmp4
                   + Out[i].AcceptedCmp5 + Out[i].Response
            /\ \A c \in {"MntWines", "MntFruits", "MntMeatProducts",
                         "MntFishProducts", "MntSweetProducts", "MntGoldProds",
                         "AcceptedCmp1", "AcceptedCmp2", "AcceptedCmp3",
                         "AcceptedCmp4", "AcceptedCmp5", "Response"} :
                   Out[i][c] = InputOf(Out[i])[c]

C4_Witness ==
    /\ Returned
    /\ \E i \in DOMAIN Out :
           /\ Out[i].Total_Spend = 63
           /\ Out[i].Total_Accepted_Campaigns = 2
           /\ Out[i].Marital_Status = "Partner"

\* a raw date that no parse attempt reads
Unparseable(raw) == StrictParse(raw).nat /\ DayFirstDate(raw).nat

\* C5: a row whose Dt_Customer fails every parse attempt is not dropped:
\* with a non-null Income < 600000 and Age < 100 it is returned, with a null
\* Tenure_Days.
C5_UnparsedDateKept ==
    Returned =>
        \A j \in DOMAIN In :
            (Unparseable(In[j].Dt_Customer) /\ KeepsRow(In[j])) =>
                \E i \in DOMAIN Out :
                    /\ Out[i].ID = j
                    /\ Out[i].Tenure_Days.isnull

C5_Witness ==
    /\ Returned
    /\ \E i, k \in DOMAIN Out :
           /\ InputOf(Out[i]).Dt_Customer = DtJunk
           /\ Out[i].Tenure_Days.isnull
           /\ ~Out[k].Tenure_Days.isnull

MaritalKeys ==
    {"Married", "Together", "Single", "Divorced", "Widow", "Alone", "Absurd",
     "YOLO"}

EducationKeys == {"Basic", "2n Cycle", "Graduation", "Master", "PhD"}

\* C6: Marital_Status {Married, Together} becomes Partner, {Single, Divorced,
\* Widow, Alone} Single, {Absurd, YOLO} Other; Education Basic becomes
\* Undergraduate, 2n Cycle Master, Graduation Graduate, Master Master, PhD
\* PhD; any other raw value is unchanged, so the returned Marital_Status
\* values lie in {Partner, Single, Other} united with the unmapped inputs.
C6_CategoryNormalization ==
    Returned =>
        /\ \A i \in DOMAIN Out :
               LET ms == InputOf(Out[i]).Marital_Status
                   ed == InputOf(Out[i]).Education
               IN  /\ ms \in {"Married", "Together"}
                          => Out[i].Marital_Status = "Partner"
                   /\ ms \in {"Single", "Divorced", "Widow", "Alone"}
                          => Out[i].Marital_Status = "Single"
                   /\ ms \in {"Absurd", "YOLO"}
                          => Out[i].Marital_Status = "Other"
                   /\ ms \notin MaritalKeys => Out[i].Marital_Status = ms
                   /\ ed = "Basic" => Out[i].Education = "Undergraduate"
                   /\ ed = "2n Cycle" => Out[i].Education = "Master"
                   /\ ed = "Graduation" => Out[i].Education = "Graduate"
                   /\ ed = "Master" => Out[i].Education = "Master"
                   /\ ed = "PhD" => Out[i].Education = "PhD"
                   /\ ed \notin EducationKeys => Out[i].Education = ed
        /\ {Out[i].Marital_Status : i \in DOMAIN Out}
             \subseteq {"Partner", "Single", "Other"}
                       \cup ({In[j].Marital_Status : j \in DOMAIN In}
                             \ MaritalKeys)

C6_Witness ==
    /\ Returned
    /\ \E i, k \in DOMAIN Out :
           /\ InputOf(Out[i]).Marital_Status = "Cohabiting"
           /\ Out[i].Marital_Status = "Cohabiting"
           /\ InputOf(Out[k]).Education = "2n Cycle"
           /\ Out[k].Education = "Master"

----------------------------------------------------------------------------
(* Properties of the script (checked under Spec) *)

Dashboard == {"sidebar", "kpi", "chart"}

Messages == {"error", "info", "exception"}

RunEnded == pc \in {"done", "halted"}

NothingBuilt ==
    /\ df.none
    /\ df_filtered.none
    /\ rendered \cap Dashboard = {}
    /\ rendered \cap Messages # {}

\* C7 as stated: if the input resource cannot be located or read, the call
\* reports the error and returns no table, and that run produces no sidebar
\* filter, KPI card or chart, only a message.
C7_AbsentFileStopsRun ==
    (RunEnded /\ lastRun.fileKind \in {"missing", "unreadable"}) => NothingBuilt

\* C7, amended: if the input resource cannot be located or read when the
\* pipeline body executes (no memoized result answers the call), the call
\* reports the error and returns no table, and that run produces no sidebar
\* filter, KPI card or chart, only a message; and so does every run whose
\* call returned no table.
C7_FailedLoadStopsRun ==
    /\ (RunEnded /\ lastRun.fileKind \in {"missing", "unreadable"}
          /\ ~lastRun.hit) => NothingBuilt
    /\ (RunEnded /\ df.none) => NothingBuilt

C7_Witness ==
    /\ pc = "done"
    /\ lastRun = [fileKind |-> "missing", hit |-> FALSE]
    /\ df.none
    /\ rendered = {"error", "info"}

\* C8: across reruns within one process the pipeline body produces a result
\* at most once; once a result is stored every later run is served that same
\* result, and the entry goes only when the process restarts (the path is a
\* literal and never changes).
C8_MemoizedOnce ==
    [][/\ computed' <= 1
       /\ (cache.stored /\ pc' # "start") =>
              /\ cache' = cache
              /\ computed' = computed
              /\ df' = cache.val]_vars

C8_Witness ==
    /\ pc = "done"
    /\ computed = 1
    /\ lastRun.hit
    /\ file.kind = "present"
    /\ Some(Clean(file.table)) # cache.val
    /\ Len(df.rows) = 2

\* C9: the cleaned table is never changed by the script: after any run, with
\* any selection, df still equals the memoized table and has no 'Age Group'
\* column; only the filtered view has it, and the view's rows are rows of df.
\* This includes the run where Country is absent and the view starts as df.
C9_CleanTableUntouched ==
    (pc = "done" /\ ~df.none) =>
        /\ df = cache.val
        /\ "Age Group" \notin df.columns
        /\ \A i \in DOMAIN df.rows : "Age Group" \notin DOMAIN df.rows[i]
        /\ df_filtered.columns = df.columns \cup {"Age Group"}
        /\ \A i \in DOMAIN df_filtered.rows :
               \E j \in DOMAIN df.rows :
                   df.rows[j] = [k \in df.columns |-> df_filtered.rows[i][k]]

C9_Witness ==
    /\ pc = "done"
    /\ ~df.none
    /\ "Country" \notin df.columns
    /\ Len(df.rows) = 2
    /\ Len(df_filtered.rows) = 1
    /\ lastRun.hit

\* C10: every row of a filtered view with 0 <= Age < 100 gets exactly one of
\* the labels '<30', '30-45', '46-60', '60+'; none is left without a label.
C10_EveryAgeLabelled ==
    (pc = "done" /\ ~df.none) =>
        \A i \in DOMAIN df_filtered.rows :
            LET r == df_filtered.rows[i]
            IN  (0 <= r.Age /\ r.Age < 100) =>
                    r["Age Group"] \in {"<30", "30-45", "46-60", "60+"}

====
